---- MODULE Spec2Model ----
(***************************************************************************)
(* A model of sol-grid: the dense voxel Grid<T> over a flat byte buffer    *)
(* (src/src/lib.rs), its cell enumerators, the rotation about the z axis   *)
(* and the MagicaVoxel encoder (src/src/vox.rs).                           *)
(*                                                                         *)
(* Integer widths.  The code computes in u8, u32 and usize.  The widths    *)
(* are kept, scaled down so that the value ranges can be enumerated:       *)
(* u8 is U8Bits wide, u32 is U32Bits wide, usize is UsizeBits wide, with   *)
(* U8Bits < U32Bits < UsizeBits as on a 64-bit target.  Everything that    *)
(* the code derives from a width (wrap-around, checked_mul, `as` casts)    *)
(* is derived from the scaled width here.  i64 (rotated_z) is far wider    *)
(* than any value it holds and is modelled by the integers.                *)
(* The bytes of the buffer and of the output are data, never computed     *)
(* with: a colour channel or a byte of to_le_bytes keeps its eight bits.   *)
(*                                                                         *)
(* Overflow.  An overflowing +, * or - on an integer panics in a build     *)
(* with overflow checks (debug) and wraps in a build without (release).    *)
(* The variable build is chosen in Init and both outcomes are explored.    *)
(***************************************************************************)
EXTENDS Integers, Sequences, FiniteSets, TLC

U8Bits == 2

U32Bits == 7

UsizeBits == 11

U8Max == 2^U8Bits - 1

U32Max == 2^U32Bits - 1

UsizeMax == 2^UsizeBits - 1

\* Inputs of Grid::new: the small extents, and one large extent that makes
\* grids whose cell count passes U32Max and whose byte size passes UsizeMax.
MaxSmallExtent == 2

BigExtent == 16

Extents == (0..MaxSmallExtent) \cup {BigExtent}

\* Number of writes through get_mut (or a mutable enumerator) in one run.
MaxWrites == 2

\* Calls of next() after the enumerator has returned None.
MaxExtraNext == 2

\* Largest cube edge handed to rotated_z, and rotations applied in one run.
MaxCube == 6

MaxRotations == 4

Builds == {"debug", "release"}

Types == {"u32", "Voxel"}

VoxelSIZE == 8

U32SIZE == 4

\* <T>::SIZE as usize
SIZE(T) == IF T = "Voxel" THEN VoxelSIZE ELSE U32SIZE

None == <<>>

Some(v) == <<v>>

IsSome(o) == Len(o) = 1

Unwrap(o) == o[1]

\* vec![0; n]: the sequence of n zero bytes (built by halves)
RECURSIVE Zeros(_)
Zeros(n) == IF n = 0 THEN <<>>
            ELSE IF n = 1 THEN <<0>>
            ELSE Zeros(n \div 2) \o Zeros(n - (n \div 2))

-----------------------------------------------------------------------------
(* Integer arithmetic at the code's widths: the wrapped value and whether  *)
(* the exact result left the range.                                        *)

AddU32(a, b) == [v |-> (a + b) % (U32Max + 1), ovf |-> a + b > U32Max]

MulU32(a, b) == [v |-> (a * b) % (U32Max + 1), ovf |-> a * b > U32Max]

AddU8(a, b) == [v |-> (a + b) % (U8Max + 1), ovf |-> a + b > U8Max]

\* usize::checked_mul on an Option<usize>, as chained by and_then
checked_mul(o, b) ==
    IF ~IsSome(o) THEN None
    ELSE IF Unwrap(o) * b > UsizeMax THEN None ELSE Some(Unwrap(o) * b)

\* `v as u8` without the truncation
AsU8_wide(v) == v

\* `v as u8`
AsU8(v) == v % (U8Max + 1)

\* `v as u32` of a usize, or of an i64 (two's complement for negatives)
AsU32(v) == v % (U32Max + 1)

\* u32::to_le_bytes: four bytes, least significant first
to_le_bytes(v) == << v % 256, (v \div 256) % 256, (v \div 65536) % 256, (v \div 16777216) % 256 >>

-----------------------------------------------------------------------------
(* Codec: a cell as its SIZE bytes.                                        *)

\* impl Codec for u32: the value's bytes in memory (little-endian target)
u32_as_slice(v) == to_le_bytes(v)

\* Voxel::from_rgba: the four colour bytes followed by four zero bytes
from_rgba(rgba) == rgba \o <<0, 0, 0, 0>>

\* Voxel::as_rgba: the first four bytes of the cell
as_rgba(cell) == SubSeq(cell, 1, 4)

-----------------------------------------------------------------------------
(* Grid<T>.  A grid is a record [T, width, depth, height, data], data the  *)
(* byte buffer (1-based here: byte offset k of the code is data[k + 1]).   *)

NoGrid == [T |-> "none", width |-> 0, depth |-> 0, height |-> 0, data |-> <<>>]

\* Grid::len
len(T, w, d, h) == checked_mul(checked_mul(checked_mul(Some(SIZE(T)), w), d), h)

\* Grid::new: None stands for the panic "Grid len overflows usize"
new(T, w, d, h) ==
    IF ~IsSome(len(T, w, d, h)) THEN None
    ELSE Some([T |-> T, width |-> w, depth |-> d, height |-> h,
               data |-> Zeros(Unwrap(len(T, w, d, h)))])

\* Grid::cell_count
cell_count(g) == g.width * g.depth * g.height

\* Grid::indices_unchecked: the byte range min_index..min_index + SIZE, and
\* whether any step of the u32 (or usize) arithmetic overflowed.
indices_unchecked(g, x, y, z) ==
    LET yw == MulU32(y, g.width)
        xyw == AddU32(x, yw.v)
        zw == MulU32(z, g.width)
        zwd == MulU32(zw.v, g.depth)
        unsized_index == AddU32(xyw.v, zwd.v)
        min_index == unsized_index.v * SIZE(g.T)
    IN  [ovf |-> yw.ovf \/ xyw.ovf \/ zw.ovf \/ zwd.ovf \/ unsized_index.ovf
                  \/ min_index + SIZE(g.T) > UsizeMax,
         start |-> min_index,
         end |-> min_index + SIZE(g.T)]

InBounds(g, x, y, z) == x < g.width /\ y < g.depth /\ z < g.height

\* Grid::indices without the test of the coordinates against the extents
indices_untested(g, x, y, z) == Some(indices_unchecked(g, x, y, z))

\* Grid::indices
indices(g, x, y, z) ==
    IF x >= g.width \/ y >= g.depth \/ z >= g.height THEN None
    ELSE Some(indices_unchecked(g, x, y, z))

\* The outcome of resolving (x, y, z) to a slice of data in build b:
\* a panic (out of bounds, arithmetic overflow, slice range) or the range.
Resolve(b, g, x, y, z) ==
    LET r == indices(g, x, y, z) IN
    IF ~IsSome(r) THEN [panic |-> TRUE, msg |-> "out of bounds"]
    ELSE IF Unwrap(r).ovf /\ b = "debug" THEN [panic |-> TRUE, msg |-> "overflow"]
    ELSE IF Unwrap(r).end > Len(g.data) THEN [panic |-> TRUE, msg |-> "slice"]
    ELSE [panic |-> FALSE, msg |-> "", start |-> Unwrap(r).start, end |-> Unwrap(r).end]

\* The buffer with the bytes v[k..] stored from byte offset start + k - 1 on:
\* the assignment through the &mut T that from_slice_mut returns.
RECURSIVE Store(_, _, _, _)
Store(data, start, v, k) ==
    IF k > Len(v) THEN data
    ELSE Store([data EXCEPT ![start + k] = v[k]], start, v, k + 1)

\* Grid::get: the cell read at (x, y, z), or the panic
get(b, g, x, y, z) ==
    LET r == Resolve(b, g, x, y, z) IN
    IF r.panic THEN r
    ELSE [panic |-> FALSE, msg |-> "", value |-> SubSeq(g.data, r.start + 1, r.end)]

\* `*grid.get_mut(x, y, z) = v`: the grid after the write, or the panic
get_mut(b, g, x, y, z, v) ==
    LET r == Resolve(b, g, x, y, z) IN
    IF r.panic THEN r
    ELSE [panic |-> FALSE, msg |-> "", grid |-> [g EXCEPT !.data = Store(g.data, r.start, v, 1)]]

-----------------------------------------------------------------------------
(* State.                                                                  *)

VARIABLES
    build,     \* "debug" or "release": whether integer overflow panics or wraps
    status,    \* "none" (no grid yet), "ok", or "panic" (the program aborted)
    msg,       \* the panic's reason
    grid,      \* the Grid<T>, NoGrid before construction
    args,      \* history: the arguments <<T, w, d, h>> of the Grid::new call
    log,       \* history: the in-bounds writes <<x, y, z, v>> made, in order
    got,       \* the result of the last get: <<x, y, z, value>>, or <<>>
    it,        \* the live enumerator (EnumerateCells / EnumerateCellsMut), or NoIter
    yielded,   \* history: the items [x, y, z, start] the enumerator returned
    extra,     \* history: how many times the enumerator returned None
    orig,      \* history: the grid as it was before the first rotated_z
    rotLog,    \* history: the rotations applied since, in order
    dests,     \* history: the (rx, ry, rz) the last rotated_z computed, in order
    enc        \* the result of encode, or NoEnc

gridVars == <<grid, args, log, got>>

iterVars == <<it, yielded, extra>>

rotVars == <<orig, rotLog, dests>>

vars == <<build, status, msg, grid, args, log, got, it, yielded, extra, orig, rotLog, dests, enc>>

NoIter == [live |-> FALSE]

NoEnc == [called |-> FALSE, done |-> FALSE]

Init ==
    /\ build \in Builds
    /\ status = "none"
    /\ msg = ""
    /\ grid = NoGrid
    /\ args = <<>>
    /\ log = <<>>
    /\ got = <<>>
    /\ it = NoIter
    /\ yielded = <<>>
    /\ extra = 0
    /\ orig = NoGrid
    /\ rotLog = <<>>
    /\ dests = <<>>
    /\ enc = NoEnc

\* The values a caller writes: two u32 values, or two voxels.
RED == <<255, 0, 0, 255>>

BLUE0 == <<0, 0, 255, 0>>

Values(T) == IF T = "u32" THEN {u32_as_slice(1), u32_as_slice(2)}
             ELSE {from_rgba(RED), from_rgba(BLUE0)}

\* The coordinates a caller passes on one axis of extent e: both ends of the
\* range, and the first value past it.
Probe(e) == {c \in {0, e - 1, e} : c >= 0 /\ c <= U32Max}

\* let grid = Grid::<T>::new(w, d, h)
Grid_new(T, w, d, h) ==
    /\ status = "none"
    /\ args' = <<T, w, d, h>>
    /\ IF IsSome(new(T, w, d, h))
         THEN /\ grid' = Unwrap(new(T, w, d, h))
              /\ status' = "ok"
              /\ msg' = ""
         ELSE /\ grid' = NoGrid
              /\ status' = "panic"
              /\ msg' = "Grid len overflows usize"
    /\ UNCHANGED <<build, log, got, iterVars, rotVars, enc>>

\* *grid.get_mut(x, y, z) = v
Grid_get_mut(x, y, z, v) ==
    /\ status = "ok"
    /\ ~it.live
    /\ Len(log) < MaxWrites
    /\ LET r == get_mut(build, grid, x, y, z, v) IN
         IF r.panic
           THEN /\ status' = "panic"
                /\ msg' = r.msg
                /\ UNCHANGED <<grid, log>>
           ELSE /\ grid' = r.grid
                /\ log' = Append(log, <<x, y, z, v>>)
                /\ UNCHANGED <<status, msg>>
    /\ got' = <<>>
    /\ UNCHANGED <<build, args, iterVars, rotVars, enc>>

\* let value = *grid.get(x, y, z)
Grid_get(x, y, z) ==
    /\ status = "ok"
    /\ ~it.live
    /\ LET r == get(build, grid, x, y, z) IN
         IF r.panic
           THEN /\ status' = "panic"
                /\ msg' = r.msg
                /\ got' = <<>>
           ELSE /\ got' = <<x, y, z, r.value>>
                /\ UNCHANGED <<status, msg>>
    /\ UNCHANGED <<build, grid, args, log, iterVars, rotVars, enc>>

\* Construction, then reads and writes through get and get_mut.
Next ==
    \/ \E T \in Types, w \in Extents, d \in Extents, h \in Extents : Grid_new(T, w, d, h)
    \/ \E x \in Probe(grid.width), y \in Probe(grid.depth), z \in Probe(grid.height),
          v \in Values(grid.T) : Grid_get_mut(x, y, z, v)
    \/ \E x \in Probe(grid.width), y \in Probe(grid.depth), z \in Probe(grid.height) :
          Grid_get(x, y, z)

Spec == Init /\ [][Next]_vars

-----------------------------------------------------------------------------
(* Claims about construction and addressing.                               *)

Coords(g) == (0..(g.width - 1)) \X (0..(g.depth - 1)) \X (0..(g.height - 1))

\* The value most recently written at (x, y, z) according to the history,
\* all zero when it was never written.
RECURSIVE LastWritten(_, _, _)
LastWritten(l, c, T) ==
    IF l = <<>> THEN Zeros(SIZE(T))
    ELSE IF <<l[Len(l)][1], l[Len(l)][2], l[Len(l)][3]>> = c THEN l[Len(l)][4]
    ELSE LastWritten(SubSeq(l, 1, Len(l) - 1), c, T)

\* C1: on a grid built by Grid::new, after any sequence of in-bounds writes
\* through get_mut, get returns at every in-bounds coordinate the value last
\* written at exactly that coordinate (all zero if never written).
C1_ReadsLastWrite ==
    status = "ok" =>
        \A c \in Coords(grid) :
            LET r == get(build, grid, c[1], c[2], c[3]) IN
            /\ ~r.panic
            /\ r.value = LastWritten(log, c, grid.T)

\* The same statement on the grids whose cell count fits u32.
C1_ReadsLastWrite_Small ==
    (status = "ok" /\ cell_count(grid) <= U32Max + 1) =>
        \A c \in Coords(grid) :
            LET r == get(build, grid, c[1], c[2], c[3]) IN
            /\ ~r.panic
            /\ r.value = LastWritten(log, c, grid.T)

\* The exact (unbounded) offset of a coordinate.
ExactStart(g, c) == (c[1] + c[2] * g.width + c[3] * g.width * g.depth) * SIZE(g.T)

\* C2: for every grid Grid::new constructs and every in-bounds (x, y, z),
\* indices_unchecked computes, with no overflow, the byte range starting at
\* (x + y*width + z*width*depth) * SIZE of length SIZE, inside the buffer,
\* and distinct coordinates get distinct ranges.
C2_OffsetsExactAndInjective ==
    status = "ok" =>
        /\ \A c \in Coords(grid) :
              LET r == indices_unchecked(grid, c[1], c[2], c[3]) IN
              /\ ~r.ovf
              /\ r.start = ExactStart(grid, c)
              /\ r.end = r.start + SIZE(grid.T)
              /\ r.end <= Len(grid.data)
        /\ \A c \in Coords(grid) : \A e \in Coords(grid) :
              (indices_unchecked(grid, c[1], c[2], c[3]).start
                 = indices_unchecked(grid, e[1], e[2], e[3]).start) => c = e

\* The exact byte size asked of Grid::new.
ExactLen == SIZE(args[1]) * args[2] * args[3] * args[4]

\* C4: Grid::new returns an all-zero grid of exactly width*depth*height*SIZE
\* bytes whenever that product fits usize (also when an extent is 0), and
\* aborts without a grid otherwise.
C4_NewExactOrAbort ==
    status # "none" =>
        IF ExactLen <= UsizeMax
          THEN /\ grid.T = args[1]
               /\ <<grid.width, grid.depth, grid.height>> = <<args[2], args[3], args[4]>>
               /\ Len(grid.data) = ExactLen
               /\ (log = <<>> => \A i \in 1..Len(grid.data) : grid.data[i] = 0)
          ELSE /\ status = "panic"
               /\ msg = "Grid len overflows usize"
               /\ grid = NoGrid

\* The part of C4 that the code keeps: a grid that is returned has the exact
\* length and is all zero; no truncated or wrapped length is ever returned.
C4_NeverTruncated ==
    (status # "none" /\ grid # NoGrid) =>
        /\ ExactLen <= UsizeMax
        /\ Len(grid.data) = ExactLen
        /\ (log = <<>> => \A i \in 1..Len(grid.data) : grid.data[i] = 0)

-----------------------------------------------------------------------------
(* Cell enumerators.  EnumerateCells and EnumerateCellsMut hold the same    *)
(* fields and run the same next(); the chunks iterator (chunks_exact) is    *)
(* its position pos: it has handed out the chunks 0 .. pos-1 of the         *)
(* Len(data) div SIZE whole chunks of the buffer.                           *)

\* Grid::enumerate_cells (mut = FALSE) / Grid::enumerate_cells_mut (mut = TRUE)
enumerate_cells(g, mut) ==
    [live |-> TRUE, mut |-> mut, pos |-> 0, x |-> 0, y |-> 0, z |-> 0,
     width |-> g.width, depth |-> g.depth]

\* Number of chunks chunks_exact(SIZE) yields over the buffer.
ChunkCount(g) == Len(g.data) \div SIZE(g.T)

\* EnumerateCells::next / EnumerateCellsMut::next on enumerator e over g:
\* the enumerator afterwards, the item (Some([x, y, z, start]) or None), and
\* whether a u32 increment overflowed.
next(e, g) ==
    LET wrapX == e.x >= e.width
        y1 == IF wrapX THEN AddU32(e.y, 1) ELSE [v |-> e.y, ovf |-> FALSE]
        x1 == IF wrapX THEN 0 ELSE e.x
        wrapY == y1.v >= e.depth
        z1 == IF wrapY THEN AddU32(e.z, 1) ELSE [v |-> e.z, ovf |-> FALSE]
        y2 == IF wrapY THEN 0 ELSE y1.v
        x2 == AddU32(x1, 1)
        has == e.pos < ChunkCount(g)
    IN  [ovf |-> y1.ovf \/ z1.ovf \/ x2.ovf,
         e |-> [e EXCEPT !.x = x2.v, !.y = y2, !.z = z1.v,
                         !.pos = IF has THEN e.pos + 1 ELSE e.pos],
         item |-> IF has
                    THEN Some([x |-> x1, y |-> y2, z |-> z1.v, start |-> e.pos * SIZE(g.T)])
                    ELSE None]

\* let mut cells = grid.enumerate_cells()  /  grid.enumerate_cells_mut()
Grid_enumerate_cells(mut) ==
    /\ status = "ok"
    /\ ~it.live
    /\ yielded = <<>>
    /\ it' = enumerate_cells(grid, mut)
    /\ UNCHANGED <<build, status, msg, gridVars, yielded, extra, rotVars, enc>>

\* cells.next()
EnumerateCells_next ==
    /\ status = "ok"
    /\ it.live
    /\ extra < MaxExtraNext
    /\ LET r == next(it, grid) IN
         IF r.ovf /\ build = "debug"
           THEN /\ status' = "panic"
                /\ msg' = "overflow"
                /\ UNCHANGED iterVars
           ELSE /\ it' = r.e
                /\ yielded' = IF IsSome(r.item) THEN Append(yielded, Unwrap(r.item)) ELSE yielded
                /\ extra' = IF IsSome(r.item) THEN extra ELSE extra + 1
                /\ UNCHANGED <<status, msg>>
    /\ UNCHANGED <<build, gridVars, rotVars, enc>>

\* Construction, then one enumeration of the cells.
NextEnum ==
    \/ \E T \in Types, w \in Extents, d \in Extents, h \in Extents : Grid_new(T, w, d, h)
    \/ Grid_enumerate_cells(FALSE)
    \/ Grid_enumerate_cells(TRUE)
    \/ EnumerateCells_next

SpecEnum == Init /\ [][NextEnum]_vars

\* The n-th item (n from 0) carries (n mod width, (n div width) mod depth,
\* n div (width*depth)) and the n-th chunk of the buffer.
ItemInOrder(n) ==
    LET i == yielded[n + 1] IN
    /\ i.x = n % grid.width
    /\ i.y = (n \div grid.width) % grid.depth
    /\ i.z = n \div (grid.width * grid.depth)
    /\ i.start = n * SIZE(grid.T)

\* The item's cell is the cell get and get_mut address at its coordinate.
ItemIsGetCell(n) ==
    LET i == yielded[n + 1]
        r == Resolve(build, grid, i.x, i.y, i.z)
    IN  ~r.panic /\ r.start = i.start

\* The enumeration yields exactly cell_count() items and then ends.
YieldsCellCount ==
    /\ Len(yielded) <= cell_count(grid)
    /\ (extra > 0 => Len(yielded) = cell_count(grid))

\* C3: the enumerators yield exactly cell_count() tuples and then end; the
\* n-th tuple carries (n mod width, (n div width) mod depth, n div
\* (width*depth)) and its cell is the cell get/get_mut address there; every
\* in-bounds coordinate is yielded exactly once; a zero extent yields nothing.
C3_EnumerationMatchesGet ==
    (status = "ok" /\ it.live) =>
        /\ YieldsCellCount
        /\ \A n \in 0..(Len(yielded) - 1) : ItemInOrder(n) /\ ItemIsGetCell(n)
        /\ (extra > 0 => \A c \in Coords(grid) :
               Cardinality({n \in 1..Len(yielded) :
                   <<yielded[n].x, yielded[n].y, yielded[n].z>> = c}) = 1)
        /\ (cell_count(grid) = 0 => yielded = <<>>)

\* C3 without the comparison to get: count, order, chunk and coverage.
C3_EnumerationOrder ==
    (status = "ok" /\ it.live) =>
        /\ YieldsCellCount
        /\ \A n \in 0..(Len(yielded) - 1) : ItemInOrder(n)
        /\ (extra > 0 => \A c \in Coords(grid) :
               Cardinality({n \in 1..Len(yielded) :
                   <<yielded[n].x, yielded[n].y, yielded[n].z>> = c}) = 1)
        /\ (cell_count(grid) = 0 => yielded = <<>>)

-----------------------------------------------------------------------------
(* Rotation about the z axis.                                              *)

Rotations == {"R0", "R90", "R180", "R270"}

\* The matrix r of rotated_z
RotationMatrix(rotation) ==
    CASE rotation = "R0" -> << <<1, 0, 0>>, <<0, 1, 0>>, <<0, 0, 1>> >>
      [] rotation = "R90" -> << <<0, -1, 0>>, <<1, 0, 0>>, <<0, 0, 1>> >>
      [] rotation = "R180" -> << <<-1, 0, 0>>, <<0, -1, 0>>, <<0, 0, 1>> >>
      [] rotation = "R270" -> << <<0, 1, 0>>, <<-1, 0, 0>>, <<0, 0, 1>> >>

\* x_even_correction without the parity case of R90 and R180: what the
\* destinations would be if the even-width correction were left out.
x_even_correction_no_parity(rotation, width, depth) ==
    IF depth > width THEN 1 ELSE 0

\* let x_even_correction = match rotation { R90 | R180 => if width % 2 == 0
\* { 1 } else { 0 }, _ => if depth > width { 1 } else { 0 } }
x_even_correction(rotation, width, depth) ==
    IF rotation \in {"R90", "R180"}
      THEN (IF width % 2 = 0 THEN 1 ELSE 0)
      ELSE (IF depth > width THEN 1 ELSE 0)

y_even_correction(rotation, depth) ==
    IF rotation \in {"R180", "R270"}
      THEN (IF depth % 2 = 0 THEN 1 ELSE 0)
      ELSE 0

\* The destination (rx, ry, rz), in i64, of the source cell (gx, gy, gz).
Destination(rotation, width, depth, height, gx, gy, gz) ==
    LET r == RotationMatrix(rotation)
        x_offset == width \div 2
        y_offset == depth \div 2
        z_offset == height \div 2
        x == gx - x_offset
        y == gy - y_offset
        z == gz - z_offset
    IN  << r[1][1] * x + r[1][2] * y + r[1][3] * z + x_offset
              - x_even_correction(rotation, width, depth),
           r[2][1] * x + r[2][2] * y + r[2][3] * z + y_offset
              - y_even_correction(rotation, depth),
           r[3][1] * x + r[3][2] * y + r[3][3] * z + z_offset >>

\* One pass of the loop of rotated_z,
\*   for (gx, gy, gz, t) in self.enumerate_cells()
\*       { *output.get_mut(rx as u32, ry as u32, rz as u32) = *t },
\* on the loop state st: the enumerator e over the source g, the output grid
\* so far, the destinations computed so far, and whether the loop has ended
\* (next() returned None) or panicked.
RotateStep(b, rotation, g, st) ==
    IF st.panic \/ st.ended THEN st
    ELSE LET n == next(st.e, g) IN
         IF n.ovf /\ b = "debug" THEN [st EXCEPT !.panic = TRUE, !.msg = "overflow"]
         ELSE IF ~IsSome(n.item) THEN [st EXCEPT !.ended = TRUE, !.e = n.e]
         ELSE LET i == Unwrap(n.item)
                  t == SubSeq(g.data, i.start + 1, i.start + SIZE(g.T))
                  rd == Destination(rotation, g.width, g.depth, g.height, i.x, i.y, i.z)
                  w == get_mut(b, st.grid, AsU32(rd[1]), AsU32(rd[2]), AsU32(rd[3]), t)
              IN  IF w.panic
                    THEN [st EXCEPT !.panic = TRUE, !.msg = w.msg, !.dests = Append(st.dests, rd)]
                    ELSE [st EXCEPT !.e = n.e, !.grid = w.grid, !.dests = Append(st.dests, rd)]

\* k passes of the loop, one after the other (the first half of them, then
\* the rest: the recursion is only as deep as log k).
RECURSIVE RotateLoop(_, _, _, _, _)
RotateLoop(b, rotation, g, st, k) ==
    IF k = 0 THEN st
    ELSE IF k = 1 THEN RotateStep(b, rotation, g, st)
    ELSE LET half == RotateLoop(b, rotation, g, st, k \div 2) IN
         IF half.panic THEN half ELSE RotateLoop(b, rotation, g, half, k - (k \div 2))

\* Grid::rotated_z in build b: the output grid and the destinations computed,
\* or the panic (the cube assertion, or a panic of the loop).  The loop runs
\* until next() returns None: one pass per chunk and the pass that ends it.
rotated_z(b, g, rotation) ==
    IF ~(g.width = g.depth /\ g.width = g.height)
      THEN [panic |-> TRUE, msg |-> "assertion failed", dests |-> <<>>]
    ELSE IF ~IsSome(new(g.T, g.width, g.depth, g.height))
      THEN [panic |-> TRUE, msg |-> "Grid len overflows usize", dests |-> <<>>]
    ELSE RotateLoop(b, rotation, g,
                    [panic |-> FALSE, msg |-> "", ended |-> FALSE,
                     e |-> enumerate_cells(g, FALSE),
                     grid |-> Unwrap(new(g.T, g.width, g.depth, g.height)),
                     dests |-> <<>>],
                    ChunkCount(g) + 1)

\* One pass of the loops of tests::test_grid,
\*   for x { for y { for z { order += 1; *grid.get_mut(x, y, z) = order } } },
\* order a u32; st.k counts the passes done.
FillOrderStep(b, st) ==
    IF st.panic THEN st
    ELSE LET g == st.grid
             z == st.k % g.height
             y == (st.k \div g.height) % g.depth
             x == st.k \div (g.height * g.depth)
             o == AddU32(st.order, 1)
             w == get_mut(b, g, x, y, z, u32_as_slice(o.v))
         IN  IF o.ovf /\ b = "debug" THEN [st EXCEPT !.panic = TRUE, !.msg = "overflow"]
             ELSE IF w.panic THEN [st EXCEPT !.panic = TRUE, !.msg = w.msg]
             ELSE [st EXCEPT !.grid = w.grid, !.k = st.k + 1, !.order = o.v]

\* One pass of the loops of tests::test_grid_enumerate_cells,
\*   *grid.get_mut(x, y, z) = Voxel::from_rgba(&[x as u8, y as u8, z as u8, 255])
FillCoordsStep(b, st) ==
    IF st.panic THEN st
    ELSE LET g == st.grid
             z == st.k % g.height
             y == (st.k \div g.height) % g.depth
             x == st.k \div (g.height * g.depth)
             w == get_mut(b, g, x, y, z, from_rgba(<<AsU8(x), AsU8(y), AsU8(z), 255>>))
         IN  IF w.panic THEN [st EXCEPT !.panic = TRUE, !.msg = w.msg]
             ELSE [st EXCEPT !.grid = w.grid, !.k = st.k + 1]

\* One pass of the loops of tests::test_grid_voxel (and test_vox_write_
\* transparent_voxel), *grid.get_mut(x, y, z) = voxel, with voxel =
\* Voxel::from_rgba(&st.rgba)
FillVoxelStep(b, st) ==
    IF st.panic THEN st
    ELSE LET g == st.grid
             z == st.k % g.height
             y == (st.k \div g.height) % g.depth
             x == st.k \div (g.height * g.depth)
             w == get_mut(b, g, x, y, z, from_rgba(st.rgba))
         IN  IF w.panic THEN [st EXCEPT !.panic = TRUE, !.msg = w.msg]
             ELSE [st EXCEPT !.grid = w.grid, !.k = st.k + 1]

FillStep(b, st) ==
    CASE st.kind = "order" -> FillOrderStep(b, st)
      [] st.kind = "coords" -> FillCoordsStep(b, st)
      [] st.kind = "voxel" -> FillVoxelStep(b, st)

RECURSIVE FillLoop(_, _, _)
FillLoop(b, st, k) ==
    IF k = 0 THEN st
    ELSE IF k = 1 THEN FillStep(b, st)
    ELSE LET half == FillLoop(b, st, k \div 2) IN
         IF half.panic THEN half ELSE FillLoop(b, half, k - (k \div 2))

\* The fill loops of a test over the whole grid g: kind "order" (test_grid),
\* "coords" (test_grid_enumerate_cells) or "voxel" with the colour rgba.
fill(b, g, kind, rgba) ==
    FillLoop(b, [panic |-> FALSE, msg |-> "", grid |-> g, k |-> 0, order |-> 0,
                 kind |-> kind, rgba |-> rgba], cell_count(g))

\* The fill loops of a test, run on the fresh grid.
Grid_fill(kind, rgba) ==
    /\ status = "ok"
    /\ (kind = "order") = (grid.T = "u32")
    /\ ~it.live
    /\ log = <<>>
    /\ rotLog = <<>>
    /\ ~enc.done
    /\ grid.data = Zeros(Len(grid.data))
    /\ cell_count(grid) > 0
    /\ LET r == fill(build, grid, kind, rgba) IN
         IF r.panic
           THEN /\ status' = "panic"
                /\ msg' = r.msg
                /\ UNCHANGED grid
           ELSE /\ grid' = r.grid
                /\ UNCHANGED <<status, msg>>
    /\ UNCHANGED <<build, args, log, got, iterVars, rotVars, enc>>

\* let grid = grid.rotated_z(&rotation).  The caller repeats one rotation:
\* for _ in 0..n { grid = grid.rotated_z(&rotation) }, n <= MaxRotations.
Grid_rotated_z(rotation) ==
    /\ status = "ok"
    /\ ~it.live
    /\ Len(rotLog) < MaxRotations
    /\ rotation = (IF rotLog = <<>> THEN rotation ELSE rotLog[1])
    /\ orig' = IF rotLog = <<>> THEN grid ELSE orig
    /\ rotLog' = Append(rotLog, rotation)
    /\ LET r == rotated_z(build, grid, rotation) IN
         /\ dests' = r.dests
         /\ IF r.panic
              THEN /\ status' = "panic"
                   /\ msg' = r.msg
                   /\ UNCHANGED grid
              ELSE /\ grid' = r.grid
                   /\ UNCHANGED <<status, msg>>
    /\ UNCHANGED <<build, args, log, got, iterVars, enc>>

\* Construction of a cube (or of a slab, which rotated_z refuses), a fill,
\* then rotations.
NextRot ==
    \/ \E T \in Types, e \in 0..MaxCube, h \in 0..MaxCube :
          (h = e \/ h = 1) /\ Grid_new(T, e, e, h)
    \/ \E kind \in {"order", "coords"} : Grid_fill(kind, <<0, 0, 0, 0>>)
    \/ \E rotation \in Rotations : Grid_rotated_z(rotation)

SpecRot == Init /\ [][NextRot]_vars

IsCube(g) == g.T /= "none" /\ g.width = g.depth /\ g.width = g.height

\* C5 as stated: on every cube, each rotated_z by R0 or by R90 returns a
\* grid, the grid after R0 equals the original cell for cell, and so does
\* the grid after four rotations by R90.
C5_RotationIdentity ==
    (rotLog /= <<>> /\ IsCube(orig) /\ rotLog[1] \in {"R0", "R90"}) =>
        /\ status = "ok"
        /\ rotLog[1] = "R0" => grid = orig
        /\ rotLog = <<"R90", "R90", "R90", "R90">> => grid = orig

\* C5 on the cubes whose cell count fits u32 (where the offset arithmetic of
\* get_mut is exact): the identities hold.
C5_RotationIdentity_Small ==
    (rotLog /= <<>> /\ IsCube(orig) /\ rotLog[1] \in {"R0", "R90"}
       /\ cell_count(orig) <= U32Max + 1) =>
        /\ status = "ok"
        /\ rotLog[1] = "R0" => grid = orig
        /\ rotLog = <<"R90", "R90", "R90", "R90">> => grid = orig

\* C6: on a cube of extent E, every destination (rx, ry, rz) rotated_z
\* computes, for each of the four angles, has 0 <= rx, ry, rz < E, and no
\* get_mut on the output grid is refused as out of bounds.
C6_DestinationsInBounds ==
    (rotLog /= <<>> /\ IsCube(orig)) =>
        /\ \A k \in DOMAIN dests : \A a \in 1..3 :
              0 <= dests[k][a] /\ dests[k][a] < orig.width
        /\ msg /= "out of bounds"

\* The even cube of edge 4 rotated by R180, all 64 cells moved, the first
\* of them to the opposite corner of its layer.
C6_Witness ==
    /\ status = "ok"
    /\ IsCube(orig)
    /\ orig.width = 4
    /\ rotLog = <<"R180">>
    /\ Len(dests) = 64
    /\ dests[1] = <<3, 3, 0>>

-----------------------------------------------------------------------------
(* The MagicaVoxel encoder, vox::encode.                                   *)

INT_SIZE == 4

\* const PALETTE_COUNT: u32 = 256, one slot for each value of the u8 index
PALETTE_COUNT == U8Max + 1

VERSION == 150

\* b"VOX ", b"MAIN", b"SIZE", b"XYZI", b"RGBA"
TagVOX == <<86, 79, 88, 32>>

TagMAIN == <<77, 65, 73, 78>>

TagSIZE == <<83, 73, 90, 69>>

TagXYZI == <<88, 89, 90, 73>>

TagRGBA == <<82, 71, 66, 65>>

ZERO == <<0, 0, 0, 0>>

\* One pass of the first loop of encode, for (x, y, z, v) in
\* grid.enumerate_cells(), on the loop state st: the enumerator e, the map
\* color_indices, the counter index (a u8) and the list xyzis.
EncodeStep(b, g, st) ==
    IF st.panic \/ st.ended THEN st
    ELSE LET n == next(st.e, g) IN
         IF n.ovf /\ b = "debug" THEN [st EXCEPT !.panic = TRUE, !.msg = "overflow"]
         ELSE IF ~IsSome(n.item) THEN [st EXCEPT !.ended = TRUE, !.e = n.e]
         ELSE LET i == Unwrap(n.item)
                  v == SubSeq(g.data, i.start + 1, i.start + SIZE(g.T))
                  rgba == as_rgba(v)
                  seen == rgba \in DOMAIN st.color_indices
                  xyzi == << AsU8(i.x), AsU8(i.y), AsU8(i.z),
                             IF seen THEN AsU8(st.color_indices[rgba]) ELSE st.index >>
                  inc == AddU8(st.index, 1)
                  pushed == IF rgba[4] > 0 THEN Append(st.xyzis, xyzi) ELSE st.xyzis
              IN  IF seen THEN [st EXCEPT !.e = n.e, !.xyzis = pushed]
                  ELSE IF inc.ovf /\ b = "debug"
                    THEN [st EXCEPT !.panic = TRUE, !.msg = "overflow"]
                  ELSE [st EXCEPT !.e = n.e, !.xyzis = pushed, !.index = inc.v,
                                  !.color_indices =
                                      [c \in DOMAIN st.color_indices \cup {rgba} |->
                                          IF c = rgba THEN st.index ELSE st.color_indices[c]]]

\* k passes of the loop, one after the other (the first half of them, then
\* the rest).
RECURSIVE EncodeLoop(_, _, _, _)
EncodeLoop(b, g, st, k) ==
    IF k = 0 THEN st
    ELSE IF k = 1 THEN EncodeStep(b, g, st)
    ELSE LET half == EncodeLoop(b, g, st, k \div 2) IN
         IF half.panic THEN half ELSE EncodeLoop(b, g, half, k - (k \div 2))

\* The first loop of encode, run until next() returns None.
EncodeScan(b, g) ==
    EncodeLoop(b, g,
               [panic |-> FALSE, msg |-> "", ended |-> FALSE,
                e |-> enumerate_cells(g, FALSE),
                color_indices |-> <<>>, index |-> 1, xyzis |-> <<>>],
               ChunkCount(g) + 1)

\* The chunk sizes encode computes in u32, and whether a step overflowed.
ChunkSizes(n_xyzis) ==
    LET size_chunk_size == MulU32(INT_SIZE, 3)
        voxel_count == AsU32(n_xyzis)
        xyzi_bytes == MulU32(voxel_count, INT_SIZE)
        xyzi_chunk_size == AddU32(INT_SIZE, xyzi_bytes.v)
        rgba_chunk_size == MulU32(PALETTE_COUNT, INT_SIZE)
        chunk_header_size == MulU32(INT_SIZE, 3)
        headers == MulU32(chunk_header_size.v, 3)
        sum1 == AddU32(headers.v, size_chunk_size.v)
        sum2 == AddU32(sum1.v, xyzi_chunk_size.v)
        main_child_chunks_size == AddU32(sum2.v, rgba_chunk_size.v)
    IN  [ovf |-> size_chunk_size.ovf \/ xyzi_bytes.ovf \/ xyzi_chunk_size.ovf
                  \/ rgba_chunk_size.ovf \/ chunk_header_size.ovf \/ headers.ovf
                  \/ sum1.ovf \/ sum2.ovf \/ main_child_chunks_size.ovf,
         size_chunk_size |-> size_chunk_size.v,
         voxel_count |-> voxel_count,
         xyzi_chunk_size |-> xyzi_chunk_size.v,
         rgba_chunk_size |-> rgba_chunk_size.v,
         main_child_chunks_size |-> main_child_chunks_size.v]

\* Concat of a long list of short sequences, by halves.
RECURSIVE Flatten(_, _, _)
Flatten(ss, lo, hi) ==
    IF lo > hi THEN <<>>
    ELSE IF lo = hi THEN ss[lo]
    ELSE Flatten(ss, lo, (lo + hi) \div 2) \o Flatten(ss, (lo + hi) \div 2 + 1, hi)

\* The second loop of encode with palette[i as usize] in place of
\* palette[i as usize - 1]: every entry one position late.
RECURSIVE PaletteLoop_late(_, _, _, _)
PaletteLoop_late(color_indices, order, palette, k) ==
    IF k > Len(order) THEN palette
    ELSE PaletteLoop_late(color_indices, order,
                          [palette EXCEPT ![color_indices[order[k]] + 1] = order[k]], k + 1)

\* The second loop of encode: for (rgba, i) in color_indices
\* { palette[i as usize - 1] = rgba }, the map visited in the order `order`.
RECURSIVE PaletteLoop(_, _, _, _)
PaletteLoop(color_indices, order, palette, k) ==
    IF k > Len(order) THEN palette
    ELSE PaletteLoop(color_indices, order,
                     [palette EXCEPT ![(color_indices[order[k]] - 1) + 1] = order[k]], k + 1)

\* An index i with `i as usize - 1` outside the palette: i = 0 (the
\* subtraction overflows, or wraps to usize::MAX and the indexing panics).
PalettePanics(color_indices) ==
    \E c \in DOMAIN color_indices :
        color_indices[c] - 1 < 0 \/ color_indices[c] - 1 >= PALETTE_COUNT

\* The bytes encode writes, from the first loop's result and the palette.
EncodeBytes(g, scan, sizes, palette) ==
       TagVOX \o to_le_bytes(VERSION)
    \o TagMAIN \o ZERO \o to_le_bytes(sizes.main_child_chunks_size)
    \o TagSIZE \o to_le_bytes(sizes.size_chunk_size) \o ZERO
    \o to_le_bytes(g.width) \o to_le_bytes(g.depth) \o to_le_bytes(g.height)
    \o TagXYZI \o to_le_bytes(sizes.xyzi_chunk_size) \o ZERO
    \o to_le_bytes(sizes.voxel_count)
    \o Flatten(scan.xyzis, 1, Len(scan.xyzis))
    \o TagRGBA \o to_le_bytes(sizes.rgba_chunk_size) \o ZERO
    \o Flatten(palette, 1, Len(palette))

\* The orders in which a map with the keys S can be iterated.
RECURSIVE Orders(_)
Orders(S) == IF S = {} THEN {<<>>}
             ELSE UNION {{<<c>> \o o : o \in Orders(S \ {c})} : c \in S}

\* vox::encode in build b, the HashMap iterated in the order `order`: the
\* bytes, or the panic.
encode(b, g, scan, order) ==
    LET sizes == ChunkSizes(Len(scan.xyzis)) IN
    IF scan.panic THEN [called |-> TRUE, done |-> FALSE, msg |-> scan.msg]
    ELSE IF sizes.ovf /\ b = "debug" THEN [called |-> TRUE, done |-> FALSE, msg |-> "overflow"]
    ELSE IF PalettePanics(scan.color_indices)
      THEN [called |-> TRUE, done |-> FALSE, msg |-> "palette index"]
    ELSE [called |-> TRUE, done |-> TRUE, msg |-> "",
          bytes |-> EncodeBytes(g, scan, sizes,
                        PaletteLoop(scan.color_indices, order,
                                    [i \in 1..PALETTE_COUNT |-> ZERO], 1))]

WHITE == <<255, 255, 255, 255>>

Colors == {RED, WHITE, BLUE0}

MidExtent == 8

\* let bytes = vox::encode(grid)
Vox_encode ==
    /\ status = "ok"
    /\ ~it.live
    /\ grid.T = "Voxel"
    /\ ~enc.called
    /\ LET scan == EncodeScan(build, grid) IN
         \E order \in (IF scan.panic \/ PalettePanics(scan.color_indices)
                         THEN {<<>>} ELSE Orders(DOMAIN scan.color_indices)) :
             LET r == encode(build, grid, scan, order) IN
             /\ enc' = r
             /\ status' = IF r.done THEN "ok" ELSE "panic"
             /\ msg' = r.msg
    /\ UNCHANGED <<build, gridVars, iterVars, rotVars>>

\* Construction of a Grid<Voxel>, the fill loops of the tests, single writes
\* along the x axis, then encode.
NextVox ==
    \/ \E w \in Extents, d \in {1, MidExtent}, h \in {1, 2} : Grid_new("Voxel", w, d, h)
    \/ Grid_fill("coords", <<0, 0, 0, 0>>)
    \/ \E c \in Colors : Grid_fill("voxel", c)
    \/ \E x \in Probe(grid.width), v \in Values("Voxel") :
          ~enc.called /\ Grid_get_mut(x, 0, 0, v)
    \/ Vox_encode

SpecVox == Init /\ [][NextVox]_vars

-----------------------------------------------------------------------------
(* The grid as the encoder's input, and the output as a .vox reader sees   *)
(* it.  Positions are 0-based places in the enumeration order.             *)

Positions(g) == 0..(cell_count(g) - 1)

\* The RGBA bytes of the cell at position p, and the cell's coordinates with
\* x fastest, then y, then z.
ColourAt(g, p) == SubSeq(g.data, p * VoxelSIZE + 1, p * VoxelSIZE + 4)

CoordsAt(g, p) == << p % g.width, (p \div g.width) % g.depth, p \div (g.width * g.depth) >>

ColoursOf(g) == {ColourAt(g, p) : p \in Positions(g)}

IsNonEmpty(g, p) == ColourAt(g, p)[4] > 0

\* The positions of the cells with a non-zero alpha byte, in order.
NonEmptyPositions(g) ==
    LET all == [k \in 1..cell_count(g) |-> k - 1]
        Keep(p) == IsNonEmpty(g, p)
    IN  SelectSeq(all, Keep)

\* The position at which the colour c is first met, and the number of
\* distinct colours met up to there: c is the FirstSeenIndex(g, c)-th colour.
FirstPos(g, c) ==
    CHOOSE p \in Positions(g) :
        ColourAt(g, p) = c /\ \A q \in 0..(p - 1) : ColourAt(g, q) /= c

FirstSeenIndex(g, c) ==
    Cardinality({c2 \in ColoursOf(g) : FirstPos(g, c2) <= FirstPos(g, c)})

\* The little-endian u32 at byte offset off of the output.
Field(bytes, off) ==
    bytes[off + 1] + 256 * bytes[off + 2] + 65536 * bytes[off + 3] + 16777216 * bytes[off + 4]

\* Layout: "VOX " version "MAIN" 0 child-size | "SIZE" 12 0 w d h |
\* "XYZI" size 0 count records... | "RGBA" size 0 entries...
RgbaBytes == 4 * PALETTE_COUNT

RgbaTagAt(bytes) == Len(bytes) - RgbaBytes - 12

\* The records follow the file header (8 bytes), the MAIN header (12), the
\* SIZE chunk (12 + 12), the XYZI header (12) and the voxel count (4).
RecordsAt == 8 + 12 + (12 + 12) + 12 + 4

RecordCount(bytes) == (RgbaTagAt(bytes) - RecordsAt) \div 4

Record(bytes, k) == SubSeq(bytes, RecordsAt + 4 * (k - 1) + 1, RecordsAt + 4 * k)

\* The RGBA chunk's entry at 0-based position i.
PaletteEntry(bytes, i) ==
    SubSeq(bytes, Len(bytes) - RgbaBytes + 4 * i + 1, Len(bytes) - RgbaBytes + 4 * i + 4)

\* The records are exactly the non-empty cells in enumeration order, with
\* the coordinates truncated to u8.
RecordsAreNonEmptyCells(g, bytes) ==
    LET ne == NonEmptyPositions(g) IN
    /\ RecordCount(bytes) = Len(ne)
    /\ (RgbaTagAt(bytes) - RecordsAt) % 4 = 0
    /\ \A k \in 1..Len(ne) :
          LET c == CoordsAt(g, ne[k])
              r == Record(bytes, k)
          IN  /\ r[1] = c[1] % (U8Max + 1)
              /\ r[2] = c[2] % (U8Max + 1)
              /\ r[3] = c[3] % (U8Max + 1)

\* C7 as stated: in the output of encode, the XYZI voxel count field equals
\* the number of cells with a non-zero alpha byte, and the records are
\* exactly those cells in enumeration order with (x, y, z) truncated to u8.
C7_XyziCountAndRecords ==
    enc.done =>
        /\ Field(enc.bytes, 56) = Len(NonEmptyPositions(grid))
        /\ RecordsAreNonEmptyCells(grid, enc.bytes)

\* C7, amended: in the output of encode the records are exactly the cells
\* with a non-zero alpha byte, in enumeration order, with (x, y, z) truncated
\* to u8; and the voxel count field equals their number N whenever N fits
\* u32.
C7_RecordsAndCountWhenFits ==
    enc.done =>
        /\ RecordsAreNonEmptyCells(grid, enc.bytes)
        /\ Len(NonEmptyPositions(grid)) <= U32Max =>
              Field(enc.bytes, 56) = Len(NonEmptyPositions(grid))

\* An encoded grid wider than the u8 range, with both empty and non-empty
\* cells, the last cell of the first row among the non-empty ones.
C7_Witness ==
    /\ enc.done
    /\ grid.width > U8Max + 1
    /\ RecordCount(enc.bytes) >= 1
    /\ RecordCount(enc.bytes) < cell_count(grid)
    /\ IsNonEmpty(grid, grid.width - 1)

\* C8: in the output of encode, every record carries the first-seen index
\* of its cell's colour (the k-th distinct RGBA value met in enumeration
\* order, zero-alpha colours included, has index k, from 1), the RGBA entry
\* at position i - 1 holds the colour of index i, and the entries of the
\* indices never assigned are all zero, in whatever order the map is iterated.
C8_FirstSeenPalette ==
    enc.done =>
        LET ne == NonEmptyPositions(grid) IN
        /\ \A k \in 1..RecordCount(enc.bytes) :
              k <= Len(ne) =>
                 Record(enc.bytes, k)[4] = FirstSeenIndex(grid, ColourAt(grid, ne[k]))
        /\ \A i \in 1..PALETTE_COUNT :
              PaletteEntry(enc.bytes, i - 1) =
                 (IF \E c \in ColoursOf(grid) : FirstSeenIndex(grid, c) = i
                    THEN CHOOSE c \in ColoursOf(grid) : FirstSeenIndex(grid, c) = i
                    ELSE ZERO)

\* An encoded grid of three colours, a zero-alpha one met between the two
\* others.
C8_Witness ==
    /\ enc.done
    /\ Cardinality(ColoursOf(grid)) = 3
    /\ \E c \in ColoursOf(grid) : c[4] = 0 /\ FirstSeenIndex(grid, c) = 2
    /\ RecordCount(enc.bytes) >= 2

\* The exact size of the MAIN chunk's children for n records: three 12-byte
\* headers, the SIZE content, the XYZI content and the RGBA content.
ExactChildSize(n) == 3 * 12 + 12 + (4 + 4 * n) + RgbaBytes

\* C9 as stated: when the grid holds at most U8Max (255) distinct colours
\* with a non-zero alpha byte (and few enough cells for the sizes to fit
\* u32), encode completes, and every index emitted in a record lies in
\* 1..U8Max.
C9_PaletteCapacity ==
    (/\ enc.called
     /\ Cardinality({c \in ColoursOf(grid) : c[4] > 0}) <= U8Max
     /\ ExactChildSize(Len(NonEmptyPositions(grid))) + 20 <= U32Max) =>
        /\ enc.done
        /\ \A k \in 1..RecordCount(enc.bytes) :
              Record(enc.bytes, k)[4] \in 1..U8Max

\* C10 as stated: when the number N of records emitted fits u32, the size
\* fields of the output equal the bytes emitted: SIZE content 12, XYZI
\* content 4 + 4N (the bytes up to the RGBA tag), RGBA content 4 *
\* PALETTE_COUNT, MAIN child size the three chunks with their headers, and
\* the output 20 bytes longer than that.
C10_SizeFieldsExact ==
    (enc.done /\ RecordCount(enc.bytes) <= U32Max) =>
        LET n == RecordCount(enc.bytes) IN
        /\ Field(enc.bytes, 24) = 12
        /\ Field(enc.bytes, 48) = 4 + 4 * n
        /\ Field(enc.bytes, 48) = RgbaTagAt(enc.bytes) - 56
        /\ Field(enc.bytes, RgbaTagAt(enc.bytes) + 4) = RgbaBytes
        /\ Field(enc.bytes, 16) = ExactChildSize(n)
        /\ Len(enc.bytes) = 20 + Field(enc.bytes, 16)

\* C10 where the sizes fit u32 (no step of the size arithmetic overflows):
\* the size fields are exact.
C10_SizeFieldsExact_Small ==
    (enc.done /\ ExactChildSize(RecordCount(enc.bytes)) <= U32Max) =>
        LET n == RecordCount(enc.bytes) IN
        /\ Field(enc.bytes, 24) = 12
        /\ Field(enc.bytes, 48) = 4 + 4 * n
        /\ Field(enc.bytes, 48) = RgbaTagAt(enc.bytes) - 56
        /\ Field(enc.bytes, RgbaTagAt(enc.bytes) + 4) = RgbaBytes
        /\ Field(enc.bytes, 16) = ExactChildSize(n)
        /\ Len(enc.bytes) = 20 + Field(enc.bytes, 16)

-----------------------------------------------------------------------------
(* Out-of-bounds access.                                                   *)

OutOfBounds == [panic |-> TRUE, msg |-> "out of bounds"]

\* Construction, at most one write, then reads and writes at the ends of
\* each axis and just past them.
NextOob ==
    \/ \E T \in Types, w \in Extents, d \in Extents, h \in Extents : Grid_new(T, w, d, h)
    \/ \E x \in Probe(grid.width), y \in Probe(grid.depth), z \in Probe(grid.height),
          v \in Values(grid.T) : log = <<>> /\ Grid_get_mut(x, y, z, v)
    \/ \E x \in Probe(grid.width), y \in Probe(grid.depth), z \in Probe(grid.height) :
          Grid_get(x, y, z)

SpecOob == Init /\ [][NextOob]_vars

\* The coordinates a caller may pass that lie outside the grid on some axis.
OutsideCoords(g) ==
    {c \in Probe(g.width) \X Probe(g.depth) \X Probe(g.height) :
        c[1] >= g.width \/ c[2] >= g.depth \/ c[3] >= g.height}

\* C11: on every grid, get and get_mut at a coordinate with x >= width or
\* y >= depth or z >= height abort with the out-of-bounds panic and return
\* no cell, in both builds and wherever the flat offset of the coordinate
\* would fall; and a call that aborts leaves the buffer and the dimensions
\* of the grid as they were.
C11_OutOfBoundsAborts ==
    /\ [](status = "ok" =>
            \A c \in OutsideCoords(grid) :
                /\ get(build, grid, c[1], c[2], c[3]) = OutOfBounds
                /\ \A v \in Values(grid.T) :
                      get_mut(build, grid, c[1], c[2], c[3], v) = OutOfBounds)
    /\ [][(status = "ok" /\ status' = "panic") => grid' = grid]_vars

\* A grid that has been written to, then a get or get_mut at (width, 0, 0)
\* or beyond has aborted: the flat offset of (width, 0, 0) is that of the
\* cell (0, 1, 0), inside the buffer.
C11_Witness ==
    /\ status = "panic"
    /\ msg = "out of bounds"
    /\ log /= <<>>
    /\ grid.width >= 1
    /\ grid.depth >= 2
    /\ grid.height >= 1
    /\ (grid.width + 1) * SIZE(grid.T) <= Len(grid.data)
    /\ grid.data /= Zeros(Len(grid.data))

====
